---- MODULE Spec2Model ----
(***************************************************************************)
(* Embed tool for Editor.js (src/src/index.js): the static service        *)
(* registry built by Embed.prepare, the validator of custom services, the *)
(* block's data accessor pair and the paste / inline-input resolution.    *)
(*                                                                         *)
(* JavaScript values are tagged records.  A string is a sequence of       *)
(* tokens; the token PH stands for the text '<%= remote_id %>'.           *)
(*                                                                         *)
(* Spec is the tool with one block: prepare, the data accessors, render,  *)
(* save, the host's paste dispatch and the inline link input.             *)
(* SpecPrepare is Embed.prepare alone over the wider set Configs.         *)
(* The variable last is a history variable: the last operation, its       *)
(* argument and whether it raised.                                         *)
(***************************************************************************)
EXTENDS Integers, Sequences, FiniteSets, TLC

VARIABLES services, patterns, _data, element, inputText, last

vars == <<services, patterns, _data, element, inputText, last>>

-----------------------------------------------------------------------------
(* Bounds of the model *)

\* longest resource id (in tokens) a pasted or typed URL carries
MaxIdLen == 1
\* most entries of config.services in one call of Embed.prepare
MaxEntries == 2
\* most keys supplied in one assignment to the block's data
MaxKeys == 1

-----------------------------------------------------------------------------
(* JavaScript values *)

UNDEF == [t |-> "undefined"]
NULL == [t |-> "null"]
NAN == [t |-> "NaN"]
Bool(b) == [t |-> "boolean", v |-> b]
Num(n) == [t |-> "number", v |-> n]
Str(s) == [t |-> "string", v |-> s]
RegExpOf(h) == [t |-> "regexp", host |-> h]
Fn(n) == [t |-> "function", name |-> n]
Obj(m) == [t |-> "object", f |-> m]
ARRAY == [t |-> "array"]

\* the empty object literal {}
EmptyMap == [k \in {} |-> UNDEF]

\* typeof v
TypeOf(v) ==
  IF v.t \in {"null", "object", "array", "regexp"} THEN "object"
  ELSE IF v.t = "NaN" THEN "number"
  ELSE v.t

\* ToBoolean(v), as the operators &&, || and ! apply it
Truthy(v) ==
  CASE v.t \in {"undefined", "null", "NaN"} -> FALSE
    [] v.t = "boolean" -> v.v
    [] v.t = "number" -> v.v # 0
    [] v.t = "string" -> v.v # <<>>
    [] OTHER -> TRUE

\* a || b
Or(a, b) == IF Truthy(a) THEN a ELSE b

\* o.k for an object o: an own key's value, undefined for a missing key.
\* Regular expressions and arrays have none of the keys read here.
Get(o, k) ==
  IF o.t = "object" /\ k \in DOMAIN o.f THEN o.f[k] ELSE UNDEF

\* Object.assign({}, a, b) on the own keys of a and b
Assign(a, b) ==
  [k \in (DOMAIN a) \cup (DOMAIN b) |-> IF k \in DOMAIN b THEN b[k] ELSE a[k]]

-----------------------------------------------------------------------------
(* Strings, URLs and regular expressions *)

PH == "<%= remote_id %>"

IdChars == {"a", "$"}

RECURSIVE SeqsUpTo(_, _)
SeqsUpTo(S, n) ==
  IF n = 0 THEN {<<>>}
  ELSE LET shorter == SeqsUpTo(S, n - 1)
       IN shorter \cup {Append(s, c) : s \in {x \in shorter : Len(x) = n - 1}, c \in S}

Ids == SeqsUpTo(IdChars, MaxIdLen)

\* the host names a URL can start with; "other" is served by no default
Hosts == {"youtube", "vimeo", "codepen", "other"}

\* a URL is its host token followed by the tokens of the resource id; the id
\* varies on the hosts of a default with an id function and of the new service
URLs ==
  {Str(<<h>> \o i) : h \in {"youtube", "other"}, i \in Ids}
    \cup {Str(<<h, "a">>) : h \in Hosts}

\* regex.exec(url): the full match followed by its capture group; the empty
\* sequence stands for null (no match)
Exec(regex, url) ==
  IF url.v # <<>> /\ url.v[1] = regex.host
    THEN <<url, Str(Tail(url.v))>>
    ELSE <<>>

\* url.match(word) with a string argument: a substring search
Matches(url, word) == \E i \in 1..Len(url.v) : url.v[i] = word

\* the replacement text String.prototype.replace builds from a replacement
\* string r for one match of the placeholder: '$$' is '$', '$&' is the match
RECURSIVE GetSubstitution(_)
GetSubstitution(r) ==
  IF r = <<>> THEN <<>>
  ELSE IF Len(r) >= 2 /\ r[1] = "$" /\ r[2] = "$"
    THEN <<"$">> \o GetSubstitution(SubSeq(r, 3, Len(r)))
  ELSE IF Len(r) >= 2 /\ r[1] = "$" /\ r[2] = "&"
    THEN <<PH>> \o GetSubstitution(SubSeq(r, 3, Len(r)))
  ELSE <<r[1]>> \o GetSubstitution(Tail(r))

\* embedUrl.replace(/<\%\= remote\_id \%\>/g, id)
RECURSIVE Replace(_, _)
Replace(s, r) ==
  IF s = <<>> THEN <<>>
  ELSE (IF s[1] = PH THEN GetSubstitution(r) ELSE <<s[1]>>) \o Replace(Tail(s), r)

\* (ids) => ids.shift(), the default of performServices
Shift(ids) == IF ids = <<>> THEN UNDEF ELSE ids[1]

\* id(result) for a function value id; the one id function rules carry here,
\* "twice", is ids => ids[0] + ids[0]
ApplyId(id, ids) ==
  IF id.name = "twice" THEN Str(ids[1].v \o ids[1].v) ELSE Shift(ids)

\* the resource id performServices substitutes: id(result), with the default
\* (ids) => ids.shift() when the rule's id is undefined
ResourceId(id, ids) == IF id = UNDEF THEN Shift(ids) ELSE ApplyId(id, ids)

-----------------------------------------------------------------------------
(* The default table ./services and the configurations handed to prepare *)

RuleFields == {"regex", "embedUrl", "html", "height", "width", "id"}

IFRAME == Str(<<"<iframe>">>)

\* SERVICES, the table imported from ./services
SERVICES ==
  [youtube |-> Obj([regex |-> RegExpOf("youtube"),
                    embedUrl |-> Str(<<"youtube/embed/", PH>>),
                    html |-> IFRAME, height |-> Num(320), width |-> Num(580),
                    id |-> Fn("twice")]),
   vimeo |-> Obj([regex |-> RegExpOf("vimeo"),
                  embedUrl |-> Str(<<"vimeo/video/", PH, "?title=0">>),
                  html |-> IFRAME, height |-> Num(320), width |-> Num(580)]),
   codepen |-> Obj([regex |-> RegExpOf("codepen"),
                    embedUrl |-> Str(<<"codepen/embed/", PH>>),
                    html |-> IFRAME, height |-> Num(300), width |-> Num(600)])]

DefaultKeys == DOMAIN SERVICES

\* the names a configuration can carry: the defaults and one new service
ConfigKeys == DefaultKeys \cup {"custom"}

\* a rule that passes validation and supplies every field
FullRule ==
  [regex |-> RegExpOf("other"), embedUrl |-> Str(<<PH, "/", PH>>),
   html |-> Str(<<"<div>">>), height |-> Num(100), width |-> Num(200),
   id |-> Fn("twice")]

\* m without the key k
Without(m, k) == [x \in (DOMAIN m) \ {k} |-> m[x]]

\* m with the key k set to v
With(m, k, v) == [x \in (DOMAIN m) \cup {k} |-> IF x = k THEN v ELSE m[x]]

\* a rule that passes validation and supplies the required fields only
MinimalRule ==
  [regex |-> RegExpOf("other"), embedUrl |-> Str(<<PH>>), html |-> Str(<<"<div>">>)]

ValidRules == {Obj(FullRule), Obj(MinimalRule), Obj(Without(FullRule, "width"))}

\* rules with one required field missing, empty or of the wrong type, or one
\* optional field of the wrong type
InvalidRules ==
  {Obj(EmptyMap), Obj(Without(FullRule, "regex")), Obj(Without(FullRule, "html")),
   Obj(With(FullRule, "regex", Str(<<"re">>))),
   Obj(With(FullRule, "embedUrl", Str(<<>>))),
   Obj(With(FullRule, "id", NULL)),
   Obj(With(FullRule, "height", NAN)),
   Obj(With(FullRule, "width", Str(<<"200">>)))}

\* the values one entry of config.services can have
ServiceValues ==
  {Bool(TRUE), Bool(FALSE), Str(<<"on">>), NULL, ARRAY} \cup ValidRules \cup InvalidRules

\* the mappings config.services can be
ServiceMaps ==
  UNION {[ks -> ServiceValues] : ks \in {k \in SUBSET ConfigKeys : Cardinality(k) <= MaxEntries}}

\* the config argument of prepare: absent, without services, or with services
Configs ==
  {UNDEF, Obj(EmptyMap)} \cup {Obj([services |-> Obj(m)]) : m \in ServiceMaps}

-----------------------------------------------------------------------------
(* Embed.checkServiceConfig and Embed.prepare *)

\* a && b
And(a, b) == IF Truthy(a) THEN b ELSE a

\* Number.isFinite(v)
IsFinite(v) == v.t = "number"

\* the destructuring const {...} = v raises for null and undefined
Destructurable(v) == v.t \notin {"null", "undefined"}

\* the value checkServiceConfig returns for a destructurable config
IsValid(c) ==
  LET regex == Get(c, "regex")
      embedUrl == Get(c, "embedUrl")
      html == Get(c, "html")
      height == Get(c, "height")
      width == Get(c, "width")
      id == Get(c, "id")
      v0 == And(And(And(And(And(regex, Bool(regex.t = "regexp")),
                            embedUrl), Bool(TypeOf(embedUrl) = "string")),
                    html), Bool(TypeOf(html) = "string"))
      v1 == And(v0, IF id # UNDEF THEN Bool(id.t = "function") ELSE Bool(TRUE))
      v2 == And(v1, IF height # UNDEF THEN Bool(IsFinite(height)) ELSE Bool(TRUE))
      v3 == And(v2, IF width # UNDEF THEN Bool(IsFinite(width)) ELSE Bool(TRUE))
  IN v3

\* Embed.checkServiceConfig(c): what it returns, or that it raised
checkServiceConfig(c) ==
  IF Destructurable(c)
    THEN [raised |-> FALSE, value |-> IsValid(c)]
    ELSE [raised |-> TRUE, value |-> UNDEF]

\* a set of keys as a sequence, in some fixed order (Object.entries)
RECURSIVE KeySeq(_)
KeySeq(S) ==
  IF S = {} THEN <<>>
  ELSE LET k == CHOOSE x \in S : TRUE IN <<k>> \o KeySeq(S \ {k})

\* Object.entries of a mapping m, as [key, value] pairs
Entries(m) == [i \in 1..Cardinality(DOMAIN m) |-> <<KeySeq(DOMAIN m)[i], m[KeySeq(DOMAIN m)[i]]>>]

\* the services mapping prepare reads from its argument
ServicesOf(cfg) ==
  LET c == IF cfg = UNDEF THEN Obj(EmptyMap) ELSE cfg
      s == Get(c, "services")
  IN IF s = UNDEF THEN EmptyMap ELSE s.f

\* a filter that takes every boolean entry for an enabled service
IsEnabledAnyBoolean(e) == TypeOf(e[2]) = "boolean"

\* the filter of enabledServices: typeof value === 'boolean' && value === true
IsEnabled(e) == TypeOf(e[2]) = "boolean" /\ e[2] = Bool(TRUE)

\* enabledServices: the keys whose value is exactly true
enabledServices(svc) ==
  LET on == SelectSeq(Entries(svc), IsEnabled)
  IN {on[i][1] : i \in 1..Len(on)}

\* the first filter of userServices: typeof value === 'object'
IsObjectEntry(e) == TypeOf(e[2]) = "object"

\* the second filter of userServices
PassesCheck(e) == Truthy(checkServiceConfig(e[2]).value)

\* the map of userServices: all six fields, undefined for the missing ones
Normalise(e) == <<e[1], Obj([k \in RuleFields |-> Get(e[2], k)])>>

\* userServices, provided no checkServiceConfig call raises
userServices(svc) ==
  LET kept == SelectSeq(SelectSeq(Entries(svc), IsObjectEntry), PassesCheck)
  IN [i \in 1..Len(kept) |-> Normalise(kept[i])]

\* prepare raises when checkServiceConfig raises on an object-typed entry
PrepareRaises(svc) ==
  \E k \in DOMAIN svc : TypeOf(svc[k]) = "object" /\ checkServiceConfig(svc[k]).raised

\* entries: the defaults, filtered when something is enabled, then the users'
AllEntries(svc) ==
  LET defaults == Entries(SERVICES)
      KeyEnabled(e) == e[1] \in enabledServices(svc)
      base == IF enabledServices(svc) # {} THEN SelectSeq(defaults, KeyEnabled) ELSE defaults
  IN base \o userServices(svc)

\* the reduce building Embed.services
RECURSIVE MergeEntries(_, _)
MergeEntries(result, es) ==
  IF es = <<>> THEN result
  ELSE LET key == es[1][1]
           service == es[1][2]
           next == IF key \notin DOMAIN result
                     THEN With(result, key, service)
                     ELSE With(result, key, Obj(Assign(result[key].f, service.f)))
       IN MergeEntries(next, Tail(es))

\* a reduce that keeps the first pattern seen for a key
RECURSIVE PatternEntriesFirstWins(_, _)
PatternEntriesFirstWins(result, es) ==
  IF es = <<>> THEN result
  ELSE PatternEntriesFirstWins(
         IF es[1][1] \in DOMAIN result THEN result
         ELSE With(result, es[1][1], Get(es[1][2], "regex")), Tail(es))

\* the reduce building Embed.patterns
RECURSIVE PatternEntries(_, _)
PatternEntries(result, es) ==
  IF es = <<>> THEN result
  ELSE PatternEntries(With(result, es[1][1], Get(es[1][2], "regex")), Tail(es))

\* Embed.prepare({config}): Embed.services and Embed.patterns are assigned
\* together at the end; a raise in checkServiceConfig leaves both as they were
prepare(cfg) ==
  LET svc == ServicesOf(cfg) IN
  /\ IF PrepareRaises(svc)
       THEN /\ UNCHANGED <<services, patterns>>
            /\ last' = [op |-> "prepare", config |-> cfg, raised |-> TRUE]
       ELSE /\ services' = Obj(MergeEntries(EmptyMap, AllEntries(svc)))
            /\ patterns' = Obj(PatternEntries(EmptyMap, AllEntries(svc)))
            /\ last' = [op |-> "prepare", config |-> cfg, raised |-> FALSE]
  /\ UNCHANGED <<_data, element, inputText>>

-----------------------------------------------------------------------------
(* The block: its data accessors, render and save *)

DataFields == {"service", "source", "embed", "width", "height", "caption"}

EMPTY == Str(<<>>)

\* what querySelector(`.${api.styles.input}`) finds in the current view: the
\* link input of the input holder; nothing in the embed view, whose caption
\* carries only the class embed-tool__caption
DomCaption == IF element = "input" THEN inputText ELSE EMPTY

\* get data: refreshes the caption of a record d from the view, if there is one
GetData(d) == IF element # "null" THEN [d EXCEPT !.caption = DomCaption] ELSE d

\* data instanceof Object
IsObject(v) == v.t \in {"object", "array", "regexp", "function"}

\* the record set data builds from the assigned object and the current record
NewData(data, cur) ==
  LET caption == IF Get(data, "caption") = UNDEF THEN EMPTY ELSE Get(data, "caption")
  IN [service |-> Or(Get(data, "service"), cur.service),
      source |-> Or(Get(data, "source"), cur.source),
      embed |-> Or(Get(data, "embed"), cur.embed),
      width |-> Or(Get(data, "width"), cur.width),
      height |-> Or(Get(data, "height"), cur.height),
      caption |-> Or(Or(caption, cur.caption), EMPTY)]

\* Embed.services[service] is a rule (the destructuring of render and of
\* performServices raises otherwise)
Registered(service) ==
  /\ services # UNDEF
  /\ service.t = "string" /\ Len(service.v) = 1
  /\ service.v[1] \in DOMAIN services.f

\* render() on the record d: the record after the getter's refresh, the new
\* view, and whether the lookup of the service raised
Render(d) ==
  LET cur == GetData(d) IN
  IF ~Truthy(cur.service)
    THEN [data |-> cur, element |-> "input", inputText |-> EMPTY, raised |-> FALSE]
    ELSE IF Registered(cur.service)
      THEN [data |-> cur, element |-> "embed", inputText |-> EMPTY, raised |-> FALSE]
      ELSE [data |-> cur, element |-> element, inputText |-> inputText, raised |-> TRUE]

\* set data(data): the record, the view and whether it raised
SetData(data) ==
  IF ~IsObject(data)
    THEN [data |-> _data, element |-> element, inputText |-> inputText, raised |-> TRUE]
    ELSE LET new == NewData(data, GetData(_data))
         IN IF element # "null"
              THEN Render(new)
              ELSE [data |-> new, element |-> element, inputText |-> inputText,
                    raised |-> FALSE]

\* the state after a call of the setter
Apply(r) ==
  /\ _data' = r.data
  /\ element' = r.element
  /\ inputText' = r.inputText

\* a record as save() returned it, handed back at construction
SavedRecord ==
  [service |-> Str(<<"youtube">>), source |-> Str(<<"youtube", "a">>),
   embed |-> Str(<<"youtube/embed/", "a", "a">>), width |-> Num(580),
   height |-> Num(320), caption |-> Str(<<"text">>)]

\* the fields a partial assignment supplies, and the values it supplies
PartialFields == {"width", "caption"}

FieldValues(k) ==
  CASE k = "width" -> {Num(0), Num(200)}
    [] k = "caption" -> {EMPTY, Str(<<"text">>)}

\* the objects assigned to data: the saved record, and the objects supplying
\* at most MaxKeys of the partial fields
DataObjects ==
  LET maps == UNION {[ks -> UNION {FieldValues(k) : k \in PartialFields}] :
                       ks \in {k \in SUBSET PartialFields : Cardinality(k) <= MaxKeys}}
  IN {Obj(SavedRecord)} \cup
     {Obj(m) : m \in {x \in maps : \A k \in DOMAIN x : x[k] \in FieldValues(k)}}

\* block.data = data, by the host or by the constructor's caller
assign(data) ==
  LET r == SetData(data)
  IN /\ Apply(r)
     /\ last' = [op |-> "assign", data |-> data, raised |-> r.raised]
     /\ UNCHANGED <<services, patterns>>

\* render(), called by the host
render ==
  LET r == Render(_data)
  IN /\ Apply(r)
     /\ last' = [op |-> "render", raised |-> r.raised]
     /\ UNCHANGED <<services, patterns>>

\* save(): returns this.data
save ==
  /\ _data' = GetData(_data)
  /\ last' = [op |-> "save", raised |-> FALSE]
  /\ UNCHANGED <<services, patterns, element, inputText>>

-----------------------------------------------------------------------------
(* Resolution: onPaste, the inline link input, performServices *)

\* composePasteEventMock(service, url), and the events the host dispatches
Event(service, url) == [t |-> "object", key |-> service, data |-> url]

\* matchService(url)
matchService(url) ==
  IF Matches(url, "youtube") THEN Event("youtube", url)
  ELSE IF Matches(url, "codepen") THEN Event("codepen", url)
  ELSE IF Matches(url, "vimeo") THEN Event("vimeo", url)
  ELSE NULL

\* String(v), as replace applies it to its replacement argument
ToStr(v) == IF v.t = "string" THEN v.v ELSE <<v.t>>

\* the object performServices assigns to data for a rule and a matching url
Resolved(service, rule, url) ==
  LET result == Tail(Exec(Get(rule, "regex"), url))
      id == ResourceId(Get(rule, "id"), result)
      embed == Str(Replace(Get(rule, "embedUrl").v, ToStr(id)))
  IN Obj([service |-> Str(<<service>>), source |-> url, embed |-> embed,
          width |-> Get(rule, "width"), height |-> Get(rule, "height")])

\* why performServices raises before it assigns: event is null, the key has
\* no rule in Embed.services, or regex.exec(url) is null; "none" otherwise
Failure(event) ==
  IF event = NULL THEN "null event"
  ELSE IF ~Registered(Str(<<event.key>>)) THEN "unknown service"
  ELSE IF Exec(Get(services.f[event.key], "regex"), event.data) = <<>> THEN "no match"
  ELSE "none"

\* a performServices that assigns the service and the source before it runs
\* the regex
performServicesAssignsFirst(event) ==
  IF Failure(event) = "no match"
    THEN [data |-> NewData(Obj([service |-> Str(<<event.key>>), source |-> event.data]),
                           GetData(_data)),
          element |-> element, inputText |-> inputText, raised |-> TRUE]
    ELSE IF Failure(event) # "none"
      THEN [data |-> _data, element |-> element, inputText |-> inputText, raised |-> TRUE]
      ELSE SetData(Resolved(event.key, services.f[event.key], event.data))

\* performServices(event): the record, the view and whether it raised
performServices(event) ==
  IF Failure(event) # "none"
    THEN [data |-> _data, element |-> element, inputText |-> inputText, raised |-> TRUE]
    ELSE SetData(Resolved(event.key, services.f[event.key], event.data))

\* a dispatch of key and url that cannot resolve: the key is no key of the
\* registry, or the rule's regex does not match the url
Unresolvable(key, url) ==
  \/ services = UNDEF
  \/ key \notin DOMAIN services.f
  \/ Exec(Get(services.f[key], "regex"), url) = <<>>

\* what is remembered of a call of performServices with result r: whether the
\* event was a dispatch that cannot resolve; of a call that assigned, the
\* event; of a call that raised, which step raised and the record before it
Outcome(op, event, r) ==
  LET failure == Failure(event)
  IN [op |-> op,
      unresolvable |-> event # NULL /\ Unresolvable(event.key, event.data),
      event |-> IF failure # "none" THEN NULL ELSE event,
      failure |-> failure,
      raised |-> r.raised,
      before |-> IF r.raised THEN _data ELSE NULL]

\* a call of performServices(event) from the handler op
Dispatch(op, event) ==
  LET r == performServices(event)
  IN /\ Apply(r)
     /\ last' = Outcome(op, event, r)
     /\ UNCHANGED <<services, patterns>>

\* onPaste(event): the host dispatches a pasted URL under a service key
onPaste(key, url) == Dispatch("onPaste", Event(key, url))

\* the user edits the link input of the input holder
type(text) ==
  /\ element = "input"
  /\ inputText' = text
  /\ last' = [op |-> "type", raised |-> FALSE]
  /\ UNCHANGED <<services, patterns, _data, element>>

\* the input's paste listener: startLoading(matchService(clipboard text))
pasteInput(url) ==
  /\ element = "input"
  /\ Dispatch("input", matchService(url))

\* the input's keydown listener on Enter: startLoading(matchService(textContent))
keydownEnter ==
  /\ element = "input"
  /\ Dispatch("input", matchService(inputText))

-----------------------------------------------------------------------------
(* Specifications *)

\* the static properties before prepare, and a block constructed with data {}
Init ==
  /\ services = UNDEF
  /\ patterns = UNDEF
  /\ _data = [service |-> UNDEF, source |-> UNDEF, embed |-> UNDEF,
              width |-> UNDEF, height |-> UNDEF, caption |-> EMPTY]
  /\ element = "null"
  /\ inputText = EMPTY
  /\ last = [op |-> "constructor", raised |-> FALSE]

\* the configurations of the block specification: no entry, or one entry for
\* youtube or for the new service, which enables it, is null, or is a valid
\* rule with all or with only the required fields
BlockConfigs ==
  {UNDEF, Obj(EmptyMap)} \cup
  {Obj([services |-> Obj([x \in {k} |-> v])]) :
     k \in {"youtube", "custom"},
     v \in {Bool(TRUE), NULL, Obj(FullRule), Obj(MinimalRule)}}

\* the texts typed into the link input or pasted into it
Texts == {EMPTY} \cup {Str(<<h, "a">>) : h \in Hosts}

\* the host prepares the tool class when it loads the tool, before it uses a
\* block of it: no operation on the block precedes a call of prepare
Unused == last.op \in {"constructor", "prepare"}

Next ==
  \/ Unused /\ \E cfg \in BlockConfigs : prepare(cfg)
  \/ \E data \in DataObjects \cup {UNDEF, Str(<<"text">>)} : assign(data)
  \/ render
  \/ save
  \/ \E key \in ConfigKeys, url \in URLs : onPaste(key, url)
  \/ \E text \in Texts : type(text)
  \/ \E url \in Texts : pasteInput(url)
  \/ keydownEnter

Spec == Init /\ [][Next]_vars

\* Embed.prepare alone: the host holds one configuration, any of Configs, and
\* calls prepare with it
InitPrepare ==
  /\ services = UNDEF
  /\ patterns = UNDEF
  /\ _data = [service |-> UNDEF, source |-> UNDEF, embed |-> UNDEF,
              width |-> UNDEF, height |-> UNDEF, caption |-> EMPTY]
  /\ element = "null"
  /\ inputText = EMPTY
  /\ \E cfg \in Configs : last = [op |-> "configured", config |-> cfg, raised |-> FALSE]

\* the first call takes the host's configuration; later calls take any of
\* the block specification's
NextPrepare ==
  \/ last.op = "configured" /\ prepare(last.config)
  \/ last.op = "prepare" /\ \E cfg \in BlockConfigs : prepare(cfg)

SpecPrepare == InitPrepare /\ [][NextPrepare]_vars

-----------------------------------------------------------------------------
(* Vocabulary of the claims *)

\* the contract of the validator as the specification words it: regex present
\* and a regular expression, embedUrl and html non-empty strings, id a function
\* if present, height and width finite numbers if present
MeetsContract(r) ==
  /\ Get(r, "regex").t = "regexp"
  /\ TypeOf(Get(r, "embedUrl")) = "string" /\ Get(r, "embedUrl") # EMPTY
  /\ TypeOf(Get(r, "html")) = "string" /\ Get(r, "html") # EMPTY
  /\ Get(r, "id") # UNDEF => Get(r, "id").t = "function"
  /\ Get(r, "height") # UNDEF => Get(r, "height").t = "number"
  /\ Get(r, "width") # UNDEF => Get(r, "width").t = "number"

\* prepare was the last operation, and these are the service entries it read
Prepared == last.op = "prepare"

Given == ServicesOf(last.config)

\* the keys of the entries that are exactly true
TrueKeys == {k \in DOMAIN Given : Given[k] = Bool(TRUE)}

\* performServices was the last operation and it assigned the block's data
ResolvedLast == last.op \in {"onPaste", "input"} /\ ~last.raised

\* the rule of the last resolution
LastRule == services.f[last.event.key]

\* the resource id of the last resolution as the specification defines it:
\* id(groups) over the capture groups without the full match, else the first
LastId ==
  LET groups == Tail(Exec(Get(LastRule, "regex"), last.event.data))
  IN IF Get(LastRule, "id") # UNDEF THEN ApplyId(Get(LastRule, "id"), groups) ELSE groups[1]

\* s with every placeholder token replaced by the tokens of r, as they are
RECURSIVE Substitute(_, _)
Substitute(s, r) ==
  IF s = <<>> THEN <<>>
  ELSE (IF s[1] = PH THEN r ELSE <<s[1]>>) \o Substitute(Tail(s), r)

\* the record d with the keys supplied by the mapping m overwritten
Overwrite(d, m) == [k \in DataFields |-> IF k \in DOMAIN m THEN m[k] ELSE d[k]]

-----------------------------------------------------------------------------
(* Claims on Embed.prepare and Embed.checkServiceConfig (SpecPrepare) *)

\* C1: for a valid custom rule whose key is a default's (and no allow-list in
\* force), the registry entry takes each field the custom rule supplies from
\* the custom rule and keeps every field it does not supply from the default.
C1_MergeKeepsUnsuppliedDefaults ==
  (Prepared /\ ~last.raised /\ TrueKeys = {}) =>
    \A k \in DOMAIN Given \cap DefaultKeys :
      (Given[k].t = "object" /\ MeetsContract(Given[k])) =>
        \A f \in RuleFields :
          Get(services.f[k], f) =
            IF f \in DOMAIN Given[k].f THEN Given[k].f[f] ELSE Get(SERVICES[k], f)

\* C2: without object-valued entries, the registry is exactly the defaults
\* named by the entries that are exactly true, or, when no entry is exactly
\* true, the whole default table.
C2_AllowListOrDefaults ==
  (Prepared /\ \A k \in DOMAIN Given : TypeOf(Given[k]) # "object") =>
    /\ ~last.raised
    /\ services =
         IF TrueKeys # {}
           THEN Obj([k \in TrueKeys \cap DefaultKeys |-> SERVICES[k]])
           ELSE Obj(SERVICES)

\* C2 witness: a call with one entry true and another false left exactly the
\* enabled default in the registry.
C2_Witness ==
  /\ Prepared
  /\ \A k \in DOMAIN Given : TypeOf(Given[k]) # "object"
  /\ \E k \in DOMAIN Given : Given[k] = Bool(FALSE) /\ k \in DefaultKeys
  /\ Cardinality(TrueKeys \cap DefaultKeys) = 1
  /\ services # UNDEF /\ DOMAIN services.f = TrueKeys

\* C3: when every service entry is object-valued (null included) and fails
\* validation, prepare does not raise and the registry is the default table.
C3_InvalidEntriesDropped ==
  (/\ Prepared
   /\ DOMAIN Given # {}
   /\ \A k \in DOMAIN Given : TypeOf(Given[k]) = "object" /\ ~MeetsContract(Given[k])) =>
    /\ ~last.raised
    /\ services = Obj(SERVICES)

\* C4: on every value prepare hands to it, checkServiceConfig does not raise
\* and accepts exactly the rules that meet the contract.
C4_ValidatorContract ==
  Prepared =>
    \A k \in DOMAIN Given :
      TypeOf(Given[k]) = "object" =>
        /\ ~checkServiceConfig(Given[k]).raised
        /\ Truthy(checkServiceConfig(Given[k]).value) <=> MeetsContract(Given[k])

\* C4, the part the code meets: on every entry that is not null the validator
\* returns without raising and accepts exactly the rules meeting the contract.
ValidatorAgreesOffNull ==
  Prepared =>
    \A k \in DOMAIN Given :
      (TypeOf(Given[k]) = "object" /\ Given[k] # NULL) =>
        /\ ~checkServiceConfig(Given[k]).raised
        /\ Truthy(checkServiceConfig(Given[k]).value) <=> MeetsContract(Given[k])

\* C8: the pattern table has the keys of the registry, and each pattern is the
\* regex of that key's registry entry.
C8_PatternsProjectRegistry ==
  /\ (services = UNDEF) <=> (patterns = UNDEF)
  /\ services # UNDEF =>
       /\ DOMAIN patterns.f = DOMAIN services.f
       /\ \A k \in DOMAIN services.f : patterns.f[k] = Get(services.f[k], "regex")

\* C8 witness: a call overrode a default with a custom rule and the pattern of
\* that key is the custom rule's regex.
C8_Witness ==
  /\ Prepared /\ ~last.raised
  /\ \E k \in DOMAIN Given \cap DefaultKeys :
       /\ Given[k].t = "object" /\ MeetsContract(Given[k])
       /\ patterns.f[k] = Given[k].f["regex"]
       /\ patterns.f[k] # Get(SERVICES[k], "regex")

-----------------------------------------------------------------------------
(* Claims on the block (Spec) *)

\* C5: after a successful resolution the record's service is the dispatched
\* key, its source the URL, and its embed the rule's embedUrl with every
\* placeholder replaced by the resource id.
C5_ResolutionSubstitutesId ==
  ResolvedLast =>
    /\ _data.service = Str(<<last.event.key>>)
    /\ _data.source = last.event.data
    /\ _data.embed = Str(Substitute(Get(LastRule, "embedUrl").v, LastId.v))

\* C6: a dispatch whose key is not in the registry, or whose URL the rule's
\* regex does not match, raises and leaves the block's record as it was,
\* whether it came from the host (onPaste) or from the link input.
C6_FailedDispatchKeepsRecord ==
  (last.op \in {"onPaste", "input"} /\ last.unresolvable) =>
    (last.raised /\ _data = last.before)

\* C6 witness: a dispatch to a registered service with a URL its regex does
\* not match raised on a block that holds a resolved record.
C6_Witness ==
  /\ last.op = "onPaste" /\ last.unresolvable /\ last.failure = "no match"
  /\ _data.service # UNDEF /\ _data.embed # UNDEF

\* C7: an assignment of an object yields the previous record with exactly the
\* supplied keys overwritten by the supplied values.
C7_PartialUpdate ==
  [][(last'.op = "assign" /\ ~last'.raised) =>
       _data' = Overwrite(_data, last'.data.f)]_vars

\* C9: after successive successful resolutions the record's width and height
\* are those of the last matched rule, absent when the rule defines none.
C9_LastResolutionAlone ==
  [][(ResolvedLast /\ ResolvedLast') =>
       /\ _data'.width = Get(LastRule', "width")
       /\ _data'.height = Get(LastRule', "height")]_vars

\* C10: with a registry prepare produced, a dispatch event matchService
\* returns for the text of the link input never fails on the registry lookup.
C10_InlineKeyRegistered ==
  (last.op = "input" /\ last.raised /\ services # UNDEF) =>
    last.failure # "unknown service"

====
